---- MODULE Spec2Model ----
(***************************************************************************)
(* Model of src/bot.py: a Telegram weather bot.  The state is the          *)
(* process-wide user_states dictionary plus, for every handler coroutine   *)
(* in flight, its position (the await it is suspended at) and its locals.  *)
(* A step of the model is the code a coroutine runs between two awaits;    *)
(* an outbound message is emitted by the step that reaches its await.      *)
(*                                                                         *)
(* Strings of the source are kept as ASCII tags:                           *)
(*   "choose_city"     the text of line 153                                *)
(*   "enter_city"      the text of line 182                                *)
(*   "ask_sun"         the text of line 119                                *)
(*   "new_request"     the text of line 204                                *)
(*   "sun_times"       the text of lines 194-197                           *)
(*   "metrics"         the text of lines 90-94                             *)
(*   "went_wrong"      the text of line 125                                *)
(*   "city_not_found"  the text of line 127                                *)
(* and str(error) of the exceptions as                                     *)
(*   "geo_failed" (line 42), "not_found" (line 46), "weather_failed"       *)
(*   (line 59), "KeyError", "TypeError" (raised by the interpreter).       *)
(***************************************************************************)
EXTENDS Integers, Sequences, FiniteSets, TLC

VARIABLES
  user_states,  \* line 18: dict user id -> BotState
  pc,           \* per handler slot: where the coroutine is suspended
  call,         \* per handler slot: the inbound update being handled
  city,         \* per handler slot: send_weather's city argument
  weather,      \* per handler slot: send_weather's local `weather`
  sent,         \* per handler slot: the messages this invocation has emitted
  delivery,     \* how the transport hands over updates: "concurrent", "sequential",
                \* "same_user" (concurrent, all from one chat), or "test" (one chat,
                \* one update at a time, a healthy provider)
  transcript,   \* under test conditions: updates, provider responses, messages, in order
  delivered,    \* number of updates the dispatcher has handed to handlers
  hPa,          \* input of the pressure conversion (PressureSpec)
  mmHg,         \* result of the pressure conversion (PressureSpec)
  report,       \* input of the time conversion (TimeSpec): a weather body
  stored        \* result of the time conversion (TimeSpec): the user's BotState

vars ==
  <<user_states, pc, call, city, weather, sent, delivery, transcript, delivered, hPa, mmHg,
    report, stored>>

-----------------------------------------------------------------------------
(* Bounds of the model *)

MaxTasks == 2
MaxUpdates == 3
MaxHpa == 1100
MaxMinute == 1445

Tasks == 1..MaxTasks

\* The bot's own Telegram account: the author of every message that carries
\* inline buttons, hence call.message.from_user of every callback query.
BotId == 0

-----------------------------------------------------------------------------
(* JSON values of the provider's responses, and values shown in messages *)

Num(n) == [tag |-> "num", val |-> n, str |-> ""]
Str(s) == [tag |-> "str", val |-> 0, str |-> s]
Absent == [tag |-> "absent", val |-> 0, str |-> ""]
Null == [tag |-> "null", val |-> 0, str |-> ""]

\* dict.get(key, default)
Get(v, default) == IF v.tag = "absent" THEN default ELSE v

-----------------------------------------------------------------------------
(* UserStateStore *)

Modes == {"greeting", "city_choice", "other_city", "sun_question"}

\* BotState.__init__ with the mode preset to 'city_choice'
BotState_city_choice == [mode |-> "city_choice", sunrise |-> "", sunset |-> ""]

\* BotState.__init__
BotState == [mode |-> "greeting", sunrise |-> "", sunset |-> ""]

\* get_user_state without the membership test of line 22
get_user_state_always_new(store, user_id) ==
  [i \in (DOMAIN store) \cup {user_id} |-> IF i = user_id THEN BotState ELSE store[i]]

\* get_user_state: the dictionary after the call (the entry returned is store[user_id])
get_user_state(store, user_id) ==
  IF user_id \notin DOMAIN store
    THEN [i \in (DOMAIN store) \cup {user_id} |-> IF i = user_id THEN BotState ELSE store[i]]
    ELSE store

-----------------------------------------------------------------------------
(* Outbound messages *)

Message(chat, kind, text, args, buttons) ==
  [dir |-> "out", who |-> chat, kind |-> kind, text |-> text, args |-> args, buttons |-> buttons]

\* lines 140-153: one inline button per keyboard.add call, in list order
CityMenuButtons == <<"Moscow", "Cape Town", "New York", "Shanghai", "other", "start">>

CityMenu(chat) == Message(chat, "text", "choose_city", <<>>, CityMenuButtons)

\* lines 180-183 with the keyboard of lines 200-201 attached
EnterCityPrompt_with_button(chat) == Message(chat, "text", "enter_city", <<>>, <<"start">>)

\* lines 180-183
EnterCityPrompt(chat) == Message(chat, "text", "enter_city", <<>>, <<>>)

\* lines 194-197 with state.sunrise formatted into both lines
SunTimes_sunrise_twice(chat, st) ==
  Message(chat, "text", "sun_times", <<Str(st.sunrise), Str(st.sunrise)>>, <<>>)

\* lines 194-198
SunTimes(chat, st) == Message(chat, "text", "sun_times", <<Str(st.sunrise), Str(st.sunset)>>, <<>>)

\* lines 202-206 without reply_markup
NewRequestPrompt_no_keyboard(chat) == Message(chat, "text", "new_request", <<>>, <<>>)

\* lines 200-206
NewRequestPrompt(chat) == Message(chat, "text", "new_request", <<>>, <<"start">>)

\* lines 117-121 without reply_markup
SunQuestion_no_keyboard(chat) == Message(chat, "text", "ask_sun", <<>>, <<>>)

\* lines 111-121
SunQuestion(chat) == Message(chat, "text", "ask_sun", <<>>, <<"yes", "no", "start">>)

\* the except block without the comparison of line 126
ErrorText_generic(exc) == "went_wrong"

\* lines 124-131: the except block's message for an exception whose str() is exc
ErrorText(exc) == IF exc = "not_found" THEN "city_not_found" ELSE "went_wrong"

ErrorMessage(chat, exc) == Message(chat, "text", ErrorText(exc), <<>>, <<"start">>)

-----------------------------------------------------------------------------
(* Provider responses *)

\* fetch_geo_data without the test of lines 45-46: data[0] raises on an empty list
fetch_geo_data_unchecked(response) ==
  IF response.status # 200 THEN "geo_failed"
  ELSE IF response.data = <<>> THEN "IndexError"
  ELSE ""

\* fetch_geo_data: str() of the exception it raises, "" when it returns data[0]
fetch_geo_data(response) ==
  IF response.status # 200 THEN "geo_failed"
  ELSE IF response.data = <<>> THEN "not_found"
  ELSE ""

\* lines 71-75: geo_data['lat'], geo_data['lon']
Coordinates(geo_data) ==
  IF geo_data.lat.tag = "absent" \/ geo_data.lon.tag = "absent" THEN "KeyError" ELSE ""

\* fetch_weather_data: str() of the exception it raises, "" when it returns the body
fetch_weather_data(response) ==
  IF response.status # 200 THEN "weather_failed" ELSE ""

\* line 78: weather['weather'][0].get('icon', '')
IconError(w) == IF w.weather = <<>> THEN "IndexError" ELSE ""

IconCode(w) == Get(w.weather[1].icon, Str(""))

\* line 79-80
Photo(chat, w) == Message(chat, "photo", "icon", <<IconCode(w)>>, <<>>)

\* round(x * 0.75) in place of int(x * 0.75), halves rounded up
DisplayPressure_rounded(x) == (3 * x + 2) \div 4

\* int(x * 0.75) for an integer x: the product truncated toward zero
DisplayPressure(x) == IF x >= 0 THEN (3 * x) \div 4 ELSE -((3 * (-x)) \div 4)

\* line 87: main_data.get('pressure', 0) * 0.75 raises on a value that is no number
PressureError(w) == IF Get(w.pressure, Num(0)).tag # "num" THEN "TypeError" ELSE ""

\* line 87: pressure = int(main_data.get('pressure', 0) * 0.75)
Pressure(w) == DisplayPressure(Get(w.pressure, Num(0)).val)

\* lines 86-95
Metrics(chat, w) ==
  Message(chat, "text", "metrics",
          <<Get(w.temp, Str("N/A")), Num(Pressure(w)), Get(w.wind, Str("N/A"))>>,
          <<>>)

Digit == <<"0", "1", "2", "3", "4", "5", "6", "7", "8", "9">>

TwoDigits(n) == Digit[(n \div 10) + 1] \o Digit[(n % 10) + 1]

\* datetime.utcfromtimestamp(s).strftime('%H:%M')
FormatTime(s) == TwoDigits((s \div 3600) % 24) \o ":" \o TwoDigits((s \div 60) % 60)

\* lines 102-108: sys_data.get(key, 0) + timezone raises unless both are numbers
TimeError(t, timezone) == IF t.tag # "num" \/ timezone.tag # "num" THEN "TypeError" ELSE ""

\* lines 102-108 without "+ timezone"
LocalTime_utc(t, timezone) == FormatTime(t.val)

\* lines 102-108: utcfromtimestamp(sys_data.get(key, 0) + timezone).strftime('%H:%M')
LocalTime(t, timezone) == FormatTime(t.val + timezone.val)

-----------------------------------------------------------------------------
(* Inputs: inbound updates and the provider's responses *)

\* Callback payloads a user can send: the buttons of lines 113-115, 130, 141-146, 201
ButtonData == {"Moscow", "other", "start", "yes", "no"}

\* Telegram user ids of the people writing to the bot (private chats)
Users == {1, 2}

\* The user of the one chat followed under test conditions
TestUsers == {1}

\* Free text, as a sequence of tokens; " " is white space
Texts == {<<"Paris">>, <<" ", "Paris", " ">>}

RECURSIVE Join(_)
Join(tokens) == IF tokens = <<>> THEN "" ELSE Head(tokens) \o Join(Tail(tokens))

RECURSIVE LStrip(_)
LStrip(tokens) ==
  IF tokens # <<>> /\ Head(tokens) = " " THEN LStrip(Tail(tokens)) ELSE tokens

RECURSIVE RStrip(_)
RStrip(tokens) ==
  IF tokens # <<>> /\ tokens[Len(tokens)] = " "
    THEN RStrip(SubSeq(tokens, 1, Len(tokens) - 1))
    ELSE tokens

\* str.lstrip() in place of str.strip()
Strip_left_only(tokens) == Join(LStrip(tokens))

\* str.strip()
Strip(tokens) == Join(RStrip(LStrip(tokens)))

Update(kind, u, data, text) ==
  [kind |-> kind, from_user |-> u, chat |-> u, data |-> data, text |-> text]

NoCall == Update("none", BotId, "", <<>>)

\* call.message: the bot's own message that carries the button
CallMessage(c) == [from_user |-> BotId, chat |-> c.chat]

GeoResponses ==
  { [status |-> 500, data |-> <<>>],
    [status |-> 200, data |-> <<>>],
    [status |-> 200, data |-> <<[lat |-> Num(55), lon |-> Num(37)]>>] }

Body(icons, temp, pressure, wind, sunrise, sunset, timezone) ==
  [weather |-> icons, temp |-> temp, pressure |-> pressure, wind |-> wind,
   sunrise |-> sunrise, sunset |-> sunset, timezone |-> timezone]

NoWeather == Body(<<>>, Absent, Absent, Absent, Absent, Absent, Absent)

\* Two full reports, and malformed bodies that fail at lines 78, 87, 102 and 106;
\* ReportBare has every optional field missing.
ReportA ==
  Body(<<[icon |-> Str("01d")]>>, Num(21), Num(1013), Num(3), Num(19800), Num(68400), Num(0))

ReportB ==
  Body(<<[icon |-> Str("10n")]>>, Num(-4), Num(1000), Num(7), Num(10800), Num(61200), Num(10800))

ReportBare == Body(<<[icon |-> Absent]>>, Absent, Absent, Absent, Absent, Absent, Absent)

WeatherBodies ==
  { ReportA, ReportB,
    [ReportA EXCEPT !.weather = <<>>],
    [ReportA EXCEPT !.pressure = Null],
    [ReportA EXCEPT !.sunrise = Null],
    [ReportB EXCEPT !.sunset = Null] }

WeatherResponses ==
  {[status |-> 500, body |-> NoWeather]} \cup {[status |-> 200, body |-> w] : w \in WeatherBodies}

-----------------------------------------------------------------------------
(* Transcript entries *)

Inbound(c) ==
  [dir |-> "in", who |-> c.from_user, kind |-> c.kind,
   text |-> IF c.kind = "text" THEN Join(c.text) ELSE c.data,
   args |-> <<>>, buttons |-> <<>>]

Provided(u, kind, exc, args) ==
  [dir |-> "provider", who |-> u, kind |-> kind, text |-> exc, args |-> args, buttons |-> <<>>]

WeatherArgs(w) ==
  <<w.temp, w.pressure, w.wind, w.sunrise, w.sunset, w.timezone>>
  \o [i \in 1..Len(w.weather) |-> w.weather[i].icon]

-----------------------------------------------------------------------------
(* Handler steps *)

Free(t) == pc[t] \in {"idle", "done"}

\* The dispatcher starts a handler for an update of user u in the first free
\* slot; the run is cut at MaxUpdates updates.  Under test conditions the
\* previous handler has returned, and the chat may be one update longer.
CanDeliver(t, u) ==
  /\ Free(t)
  /\ \A s \in Tasks : s < t => ~Free(s)
  /\ delivery \in {"sequential", "test"} => \A s \in Tasks : Free(s)
  /\ delivery = "same_user" => u \in TestUsers
  /\ IF delivery = "test"
       THEN u \in TestUsers /\ delivered < MaxUpdates + 1
       ELSE delivered < MaxUpdates

\* Under test conditions the provider finds the city and reports well-formed weather
Healthy(exc) == delivery = "test" => exc = ""

\* What a step leaves behind: position, locals, emitted messages, transcript
Locals(t, newpc, newcall, newcity, newweather) ==
  /\ pc' = [pc EXCEPT ![t] = newpc]
  /\ call' = [call EXCEPT ![t] = newcall]
  /\ city' = [city EXCEPT ![t] = newcity]
  /\ weather' = [weather EXCEPT ![t] = newweather]

Begin(t, c, msgs) ==
  /\ delivered' = delivered + 1
  /\ sent' = [sent EXCEPT ![t] = msgs]
  /\ transcript' = IF delivery = "test" THEN transcript \o <<Inbound(c)>> \o msgs ELSE transcript

Continue(t, entries, msgs) ==
  /\ delivered' = delivered
  /\ sent' = [sent EXCEPT ![t] = sent[t] \o msgs]
  /\ transcript' = IF delivery = "test" THEN transcript \o entries \o msgs ELSE transcript

\* start_command without the assignment of line 138
start_command_keeps_mode(store, message) == get_user_state(store, message.from_user)

\* lines 137-138
start_command(store, message) ==
  [get_user_state(store, message.from_user) EXCEPT ![message.from_user].mode = "city_choice"]

\* lines 134-153, for a /start message of user u
StartCommand(t, u) ==
  LET c == Update("command", u, "", <<>>)
      message == [from_user |-> c.from_user, chat |-> c.chat]
  IN /\ CanDeliver(t, u)
     /\ user_states' = start_command(user_states, message)
     /\ Locals(t, "done", c, "", NoWeather)
     /\ Begin(t, c, <<CityMenu(message.chat)>>)
     /\ UNCHANGED <<delivery, hPa, mmHg, report, stored>>

\* lines 156-165 up to send_weather's first await (line 68)
TextMessage(t, u, text) ==
  LET c == Update("text", u, "", text)
      store == get_user_state(user_states, c.from_user)
  IN /\ CanDeliver(t, u)
     /\ user_states' = store
     /\ IF store[c.from_user].mode = "other_city"
          THEN Locals(t, "geo", c, Strip(c.text), NoWeather)
          ELSE Locals(t, "done", c, "", NoWeather)
     /\ Begin(t, c, <<>>)
     /\ UNCHANGED <<delivery, hPa, mmHg, report, stored>>

\* lines 168-208 up to the handler's first await
ButtonClick(t, u, data) ==
  LET c == Update("click", u, data, <<>>)
      user_id == c.from_user
      store == get_user_state(user_states, user_id)
      state == store[user_id]
  IN /\ CanDeliver(t, u)
     /\ IF c.data = "start"
          THEN /\ user_states' = start_command(store, CallMessage(c))
               /\ Locals(t, "done", c, "", NoWeather)
               /\ Begin(t, c, <<CityMenu(CallMessage(c).chat)>>)
        ELSE IF state.mode = "city_choice"
          THEN /\ user_states' = store
               /\ IF c.data = "other"
                    THEN /\ Locals(t, "enter_city", c, "", NoWeather)
                         /\ Begin(t, c, <<EnterCityPrompt(c.chat)>>)
                    ELSE /\ Locals(t, "geo", c, c.data, NoWeather)
                         /\ Begin(t, c, <<>>)
        ELSE IF state.mode = "sun_question"
          THEN /\ user_states' = store
               /\ IF c.data = "yes"
                    THEN /\ Locals(t, "sun_times", c, "", NoWeather)
                         /\ Begin(t, c, <<SunTimes(c.chat, state)>>)
                    ELSE /\ Locals(t, "new_request", c, "", NoWeather)
                         /\ Begin(t, c, <<NewRequestPrompt(c.chat)>>)
        ELSE /\ user_states' = store
             /\ Locals(t, "done", c, "", NoWeather)
             /\ Begin(t, c, <<>>)
     /\ UNCHANGED <<delivery, hPa, mmHg, report, stored>>

\* the branch of lines 179-184 without the assignment of line 184
EnterCitySent_keeps_mode(t) ==
  /\ pc[t] = "enter_city"
  /\ Locals(t, "done", call[t], "", NoWeather)
  /\ Continue(t, <<>>, <<>>)
  /\ UNCHANGED <<user_states, delivery, hPa, mmHg, report, stored>>

\* line 184, after the prompt of line 180 was sent
EnterCitySent(t) ==
  /\ pc[t] = "enter_city"
  /\ user_states' = [user_states EXCEPT ![call[t].from_user].mode = "other_city"]
  /\ Locals(t, "done", call[t], "", NoWeather)
  /\ Continue(t, <<>>, <<>>)
  /\ UNCHANGED <<delivery, hPa, mmHg, report, stored>>

\* lines 200-206, after the message of line 198 was sent
SunTimesSent(t) ==
  /\ pc[t] = "sun_times"
  /\ Locals(t, "new_request", call[t], "", NoWeather)
  /\ Continue(t, <<>>, <<NewRequestPrompt(call[t].chat)>>)
  /\ UNCHANGED <<user_states, delivery, hPa, mmHg, report, stored>>

\* line 207, after the prompt of line 202 was sent
NewRequestSent(t) ==
  /\ pc[t] = "new_request"
  /\ user_states' = [user_states EXCEPT ![call[t].from_user].mode = "city_choice"]
  /\ Locals(t, "done", call[t], "", NoWeather)
  /\ Continue(t, <<>>, <<>>)
  /\ UNCHANGED <<delivery, hPa, mmHg, report, stored>>

\* lines 101-104 alone: the assignment of lines 106-108 left out
StoreTimes_sunrise_only(store, user_id, w) ==
  LET timezone == Get(w.timezone, Num(0))
      sunrise == Get(w.sunrise, Num(0))
      s0 == get_user_state(store, user_id)
      s1 == [s0 EXCEPT ![user_id].sunrise = LocalTime(sunrise, timezone)]
  IN IF TimeError(sunrise, timezone) # "" THEN s0 ELSE s1

\* lines 101-108 with the assignment of line 122 moved up to line 101
StoreTimes_mode_early(store, user_id, w) ==
  LET timezone == Get(w.timezone, Num(0))
      sunrise == Get(w.sunrise, Num(0))
      sunset == Get(w.sunset, Num(0))
      s0 == [get_user_state(store, user_id) EXCEPT ![user_id].mode = "sun_question"]
      s1 == [s0 EXCEPT ![user_id].sunrise = LocalTime(sunrise, timezone)]
      s2 == [s1 EXCEPT ![user_id].sunset = LocalTime(sunset, timezone)]
  IN IF TimeError(sunrise, timezone) # "" THEN s0
     ELSE IF TimeError(sunset, timezone) # "" THEN s1
     ELSE s2

\* lines 101-108: the store after the two assignments, the second of which
\* is not reached when the first raises
StoreTimes(store, user_id, w) ==
  LET timezone == Get(w.timezone, Num(0))
      sunrise == Get(w.sunrise, Num(0))
      sunset == Get(w.sunset, Num(0))
      s0 == get_user_state(store, user_id)
      s1 == [s0 EXCEPT ![user_id].sunrise = LocalTime(sunrise, timezone)]
      s2 == [s1 EXCEPT ![user_id].sunset = LocalTime(sunset, timezone)]
  IN IF TimeError(sunrise, timezone) # "" THEN s0
     ELSE IF TimeError(sunset, timezone) # "" THEN s1
     ELSE s2

TimesError(w) ==
  LET timezone == Get(w.timezone, Num(0))
  IN IF TimeError(Get(w.sunrise, Num(0)), timezone) # ""
       THEN TimeError(Get(w.sunrise, Num(0)), timezone)
       ELSE TimeError(Get(w.sunset, Num(0)), timezone)

\* lines 124-131: the except block, entered with an exception whose str() is exc
Except(t, entries, exc) ==
  /\ Locals(t, "done", call[t], "", NoWeather)
  /\ Continue(t, entries, <<ErrorMessage(call[t].chat, exc)>>)

\* lines 68-75: the geocoder's response arrives; on success the weather request leaves
GeoResponse(t, response) ==
  LET exc == IF fetch_geo_data(response) # "" THEN fetch_geo_data(response)
             ELSE Coordinates(response.data[1])
      entry == Provided(call[t].from_user, "geo", exc, <<>>)
  IN /\ pc[t] = "geo"
     /\ Healthy(exc)
     /\ IF exc # ""
          THEN Except(t, <<entry>>, exc)
          ELSE /\ Locals(t, "weather", call[t], city[t], NoWeather)
               /\ Continue(t, <<entry>>, <<>>)
     /\ UNCHANGED <<user_states, delivery, hPa, mmHg, report, stored>>

\* lines 71-80: the weather response arrives; on success the icon is sent
WeatherResponse(t, response) ==
  LET exc == IF fetch_weather_data(response) # "" THEN fetch_weather_data(response)
             ELSE IconError(response.body)
      entry == Provided(call[t].from_user, "weather", exc, WeatherArgs(response.body))
  IN /\ pc[t] = "weather"
     /\ Healthy(exc) /\ Healthy(PressureError(response.body)) /\ Healthy(TimesError(response.body))
     /\ IF exc # ""
          THEN Except(t, <<entry>>, exc)
          ELSE /\ Locals(t, "photo", call[t], city[t], response.body)
               /\ Continue(t, <<entry>>, <<Photo(call[t].chat, response.body)>>)
     /\ UNCHANGED <<user_states, delivery, hPa, mmHg, report, stored>>

\* lines 83-95, after the icon was sent
PhotoSent(t) ==
  /\ pc[t] = "photo"
  /\ IF PressureError(weather[t]) # ""
       THEN Except(t, <<>>, PressureError(weather[t]))
       ELSE /\ Locals(t, "metrics", call[t], city[t], weather[t])
            /\ Continue(t, <<>>, <<Metrics(call[t].chat, weather[t])>>)
  /\ UNCHANGED <<user_states, delivery, hPa, mmHg, report, stored>>

\* lines 98-121 with the two times computed but not assigned to the state
MetricsSent_times_dropped(t) ==
  /\ pc[t] = "metrics"
  /\ user_states' = get_user_state(user_states, call[t].from_user)
  /\ IF TimesError(weather[t]) # ""
       THEN Except(t, <<>>, TimesError(weather[t]))
       ELSE /\ Locals(t, "ask_sun", call[t], city[t], weather[t])
            /\ Continue(t, <<>>, <<SunQuestion(call[t].chat)>>)
  /\ UNCHANGED <<delivery, hPa, mmHg, report, stored>>

\* lines 98-121, after the metrics were sent
MetricsSent(t) ==
  /\ pc[t] = "metrics"
  /\ user_states' = StoreTimes(user_states, call[t].from_user, weather[t])
  /\ IF TimesError(weather[t]) # ""
       THEN Except(t, <<>>, TimesError(weather[t]))
       ELSE /\ Locals(t, "ask_sun", call[t], city[t], weather[t])
            /\ Continue(t, <<>>, <<SunQuestion(call[t].chat)>>)
  /\ UNCHANGED <<delivery, hPa, mmHg, report, stored>>

\* the end of the try block without the assignment of line 122
SunQuestionSent_keeps_mode(t) ==
  /\ pc[t] = "ask_sun"
  /\ Locals(t, "done", call[t], "", NoWeather)
  /\ Continue(t, <<>>, <<>>)
  /\ UNCHANGED <<user_states, delivery, hPa, mmHg, report, stored>>

\* line 122, after the question of line 117 was sent
SunQuestionSent(t) ==
  /\ pc[t] = "ask_sun"
  /\ user_states' = [user_states EXCEPT ![call[t].from_user].mode = "sun_question"]
  /\ Locals(t, "done", call[t], "", NoWeather)
  /\ Continue(t, <<>>, <<>>)
  /\ UNCHANGED <<delivery, hPa, mmHg, report, stored>>

-----------------------------------------------------------------------------
(* Specifications *)

InitHandlers ==
  /\ user_states = <<>>
  /\ pc = [t \in Tasks |-> "idle"]
  /\ call = [t \in Tasks |-> NoCall]
  /\ city = [t \in Tasks |-> ""]
  /\ weather = [t \in Tasks |-> NoWeather]
  /\ sent = [t \in Tasks |-> <<>>]
  /\ transcript = <<>>
  /\ delivered = 0

NoConversion == hPa = Absent /\ mmHg = -1 /\ report = NoWeather /\ stored = BotState

Init == InitHandlers /\ delivery = "concurrent" /\ NoConversion

Next ==
  \E t \in Tasks :
    \/ \E u \in Users : StartCommand(t, u)
    \/ \E u \in Users, text \in Texts : TextMessage(t, u, text)
    \/ \E u \in Users, data \in ButtonData : ButtonClick(t, u, data)
    \/ EnterCitySent(t)
    \/ SunTimesSent(t)
    \/ NewRequestSent(t)
    \/ \E response \in GeoResponses : GeoResponse(t, response)
    \/ \E response \in WeatherResponses : WeatherResponse(t, response)
    \/ PhotoSent(t)
    \/ MetricsSent(t)
    \/ SunQuestionSent(t)

Spec == Init /\ [][Next]_vars

\* One update at a time: a handler has returned before the next update is handled
InitSeq == InitHandlers /\ delivery = "sequential" /\ NoConversion

SeqSpec == InitSeq /\ [][Next]_vars

\* Concurrent handlers of the updates of one user
InitSameUser == InitHandlers /\ delivery = "same_user" /\ NoConversion

SameUserSpec == InitSameUser /\ [][Next]_vars

\* Test conditions
InitTest == InitHandlers /\ delivery = "test" /\ NoConversion

TestSpec == InitTest /\ [][Next]_vars

\* The pressure conversion of line 87 alone
InitPressure ==
  /\ InitHandlers
  /\ delivery = "concurrent"
  /\ hPa \in {Absent} \cup {Num(p) : p \in 0..MaxHpa}
  /\ mmHg = -1
  /\ report = NoWeather
  /\ stored = BotState

Convert ==
  /\ mmHg = -1
  /\ mmHg' = Pressure([ReportBare EXCEPT !.pressure = hPa])
  /\ UNCHANGED <<user_states, pc, call, city, weather, sent, delivery, transcript, delivered, hPa,
                 report, stored>>

PressureSpec == InitPressure /\ [][Convert]_vars

\* The time conversion of lines 98-108 alone.  The timestamps run minute by
\* minute over a little more than a day, at the first and the last second of
\* the minute, next to a present-day timestamp and a missing field;
\* utcfromtimestamp is platform-dependent below zero, so the local timestamp
\* is kept non-negative.
Timestamps ==
  {Absent, Num(1700000000)} \cup {Num(60 * m + r) : m \in 0..MaxMinute, r \in {0, 59}}

Timezones == {Absent, Num(0), Num(19800), Num(-18000)}

TimeReports ==
  { [ReportBare EXCEPT !.sunrise = t, !.sunset = u, !.timezone = z] :
      t \in Timestamps, u \in {Absent, Num(68400)}, z \in Timezones }

InitTime ==
  /\ InitHandlers
  /\ delivery = "concurrent"
  /\ hPa = Absent
  /\ mmHg = -1
  /\ report \in TimeReports
  /\ Get(report.sunrise, Num(0)).val + Get(report.timezone, Num(0)).val >= 0
  /\ Get(report.sunset, Num(0)).val + Get(report.timezone, Num(0)).val >= 0
  /\ stored = BotState

StoreSunTimes ==
  /\ stored = BotState
  /\ stored' = StoreTimes(<<>>, 1, report)[1]
  /\ UNCHANGED <<user_states, pc, call, city, weather, sent, delivery, transcript, delivered,
                 hPa, mmHg, report>>

TimeSpec == InitTime /\ [][StoreSunTimes]_vars

-----------------------------------------------------------------------------
(* Claims *)

Entry(store, u) == IF u \in DOMAIN store THEN store[u] ELSE BotState

\* C1: handling ButtonClick("start") of user u, in whatever mode u is, sets
\* u's own mode to city_choice and emits the six-item city menu.
C1_StartButtonSetsOwnMode ==
  [][\A t \in Tasks, u \in Users :
       ButtonClick(t, u, "start") =>
         /\ user_states'[u].mode = "city_choice"
         /\ sent'[t] = <<CityMenu(u)>>]_vars

\* C2: handling CommandStart of user u, in whatever mode u is, sets u's mode
\* to city_choice, emits exactly one message, whose buttons carry Moscow, Cape
\* Town, New York, Shanghai, other, start in that order, and leaves u's
\* sunrise and sunset as they were.
C2_CommandStart ==
  [][\A t \in Tasks, u \in Users :
       StartCommand(t, u) =>
         /\ user_states'[u].mode = "city_choice"
         /\ Len(sent'[t]) = 1
         /\ sent'[t][1].who = u
         /\ sent'[t][1].buttons = <<"Moscow", "Cape Town", "New York", "Shanghai", "other", "start">>
         /\ user_states'[u].sunrise = Entry(user_states, u).sunrise
         /\ user_states'[u].sunset = Entry(user_states, u).sunset]_vars

\* C2 witness: /start was handled for a user who had asked the sun question before
C2_Witness ==
  \E t \in Tasks, u \in Users :
    /\ pc[t] = "done" /\ call[t] = Update("command", u, "", <<>>)
    /\ u \in DOMAIN user_states
    /\ user_states[u].mode = "city_choice" /\ user_states[u].sunrise # ""
    /\ sent[t] = <<CityMenu(u)>>

FixedCities == {"Moscow", "Cape Town", "New York", "Shanghai"}

FullReports == {ReportA, ReportB}

User(t) == call[t].from_user

\* C3: under sequential delivery, a click on a fixed-city button in mode
\* city_choice goes through geocoding, fetch, icon, metrics and question when
\* both requests succeed, and ends with mode sun_question; when the geocoder
\* returns an empty list the mode stays city_choice and the one message
\* emitted is the 'city not found' message.
C3_CityButton ==
  [][\A t \in Tasks :
       (call[t].kind = "click" /\ call[t].data \in FixedCities) =>
         /\ \A r \in GeoResponses :
              GeoResponse(t, r) =>
                /\ (r.status = 200 /\ r.data = <<>>) =>
                     /\ user_states'[User(t)].mode = "city_choice"
                     /\ sent'[t] = <<Message(User(t), "text", "city_not_found", <<>>, <<"start">>)>>
                /\ (r.status = 200 /\ r.data # <<>>) => pc'[t] = "weather"
         /\ \A r \in WeatherResponses :
              (WeatherResponse(t, r) /\ r.status = 200 /\ r.body \in FullReports) =>
                pc'[t] = "photo"
         /\ (PhotoSent(t) /\ weather[t] \in FullReports) => pc'[t] = "metrics"
         /\ (MetricsSent(t) /\ weather[t] \in FullReports) => pc'[t] = "ask_sun"
         /\ SunQuestionSent(t) =>
              pc'[t] = "done" /\ user_states'[User(t)].mode = "sun_question"]_vars

\* C3 witness: a click on Moscow was handled to its end and left mode sun_question
C3_Witness ==
  \E t \in Tasks, u \in Users :
    /\ pc[t] = "done" /\ call[t] = Update("click", u, "Moscow", <<>>)
    /\ Len(sent[t]) = 3
    /\ user_states[u].mode = "sun_question"

\* C4: in mode sun_question a click on yes first emits one message with the
\* sunrise and the sunset stored for that user, then the 'new request?' prompt
\* with the single button start, and then sets the mode to city_choice; the
\* handler changes neither sunrise nor sunset.
C4_YesButton ==
  [][\A t \in Tasks :
       /\ \A u \in Users :
            (ButtonClick(t, u, "yes") /\ Entry(user_states, u).mode = "sun_question") =>
              /\ sent'[t] = <<Message(u, "text", "sun_times",
                                      <<Str(user_states[u].sunrise), Str(user_states[u].sunset)>>,
                                      <<>>)>>
              /\ user_states' = user_states
       /\ SunTimesSent(t) =>
            /\ sent'[t] = Append(sent[t], Message(User(t), "text", "new_request", <<>>, <<"start">>))
            /\ user_states' = user_states
       /\ (NewRequestSent(t) /\ call[t].data = "yes") =>
            /\ Len(sent[t]) = 2
            /\ sent[t][1].text = "sun_times" /\ sent[t][2].text = "new_request"
            /\ sent'[t] = sent[t]
            /\ user_states'[User(t)].mode = "city_choice"
            /\ user_states'[User(t)].sunrise = user_states[User(t)].sunrise
            /\ user_states'[User(t)].sunset = user_states[User(t)].sunset]_vars

\* C4 witness: a click on yes was handled to its end
C4_Witness ==
  \E t \in Tasks, u \in Users :
    /\ pc[t] = "done" /\ call[t] = Update("click", u, "yes", <<>>)
    /\ Len(sent[t]) = 2
    /\ sent[t][1].text = "sun_times"
    /\ sent[t][1].args[1].str # "" /\ sent[t][1].args[2].str # ""
    /\ sent[t][1].args[1].str # sent[t][1].args[2].str
    /\ sent[t][2].text = "new_request"
    /\ user_states[u].mode = "city_choice"

\* The end-to-end run of user u with the provider's report w, as the transport
\* sees it: what goes in ...
E2E_In(u, kind, text) ==
  [dir |-> "in", who |-> u, kind |-> kind, text |-> text, args |-> <<>>, buttons |-> <<>>]

E2E_Inputs(u, w) ==
  << E2E_In(u, "command", ""),
     E2E_In(u, "click", "other"),
     E2E_In(u, "text", "Paris"),
     Provided(u, "geo", "", <<>>),
     Provided(u, "weather", "", WeatherArgs(w)),
     E2E_In(u, "click", "yes") >>

\* ... and what must come out, written out for the two reports
E2E_Out(u, kind, text, args, buttons) ==
  [dir |-> "out", who |-> u, kind |-> kind, text |-> text, args |-> args, buttons |-> buttons]

E2E_Shown(w) ==
  IF w = ReportA
    THEN [icon |-> "01d", temp |-> Num(21), pressure |-> 759, wind |-> Num(3),
          sunrise |-> "05:30", sunset |-> "19:00"]
    ELSE [icon |-> "10n", temp |-> Num(-4), pressure |-> 750, wind |-> Num(7),
          sunrise |-> "06:00", sunset |-> "20:00"]

E2E_Outputs(u, w) ==
  << E2E_Out(u, "text", "choose_city", <<>>,
             <<"Moscow", "Cape Town", "New York", "Shanghai", "other", "start">>),
     E2E_Out(u, "text", "enter_city", <<>>, <<>>),
     E2E_Out(u, "photo", "icon", <<Str(E2E_Shown(w).icon)>>, <<>>),
     E2E_Out(u, "text", "metrics",
             <<E2E_Shown(w).temp, Num(E2E_Shown(w).pressure), E2E_Shown(w).wind>>, <<>>),
     E2E_Out(u, "text", "ask_sun", <<>>, <<"yes", "no", "start">>),
     E2E_Out(u, "text", "sun_times",
             <<Str(E2E_Shown(w).sunrise), Str(E2E_Shown(w).sunset)>>, <<>>),
     E2E_Out(u, "text", "new_request", <<>>, <<"start">>) >>

\* After each of the four updates: inputs consumed, outputs emitted, mode, and the
\* transcript (inputs and outputs in the order they happened)
E2E_Stage(k) ==
  [ins |-> <<1, 2, 5, 6>>[k], outs |-> <<1, 2, 5, 7>>[k],
   mode |-> <<"city_choice", "other_city", "sun_question", "city_choice">>[k]]

E2E_Transcript(u, w) ==
  LET i == E2E_Inputs(u, w)
      o == E2E_Outputs(u, w)
  IN <<i[1], o[1], i[2], o[2], i[3], i[4], i[5], o[3], o[4], o[5], i[6], o[6], o[7]>>

\* C5: for a previously unseen user and a provider that succeeds, the run
\* /start, click other, text Paris, click yes shows the menu (mode
\* city_choice), the prompt (other_city), icon, metrics and question
\* (sun_question), then sunrise/sunset and the new-request prompt (city_choice).
C5_EndToEnd ==
  \A u \in TestUsers, w \in FullReports, k \in 1..4 :
    ( /\ \A t \in Tasks : Free(t)
      /\ SelectSeq(transcript, LAMBDA e : e.dir # "out") = SubSeq(E2E_Inputs(u, w), 1, E2E_Stage(k).ins) )
    => /\ SelectSeq(transcript, LAMBDA e : e.dir = "out") = SubSeq(E2E_Outputs(u, w), 1, E2E_Stage(k).outs)
       /\ transcript = SubSeq(E2E_Transcript(u, w), 1, E2E_Stage(k).ins + E2E_Stage(k).outs)
       /\ user_states[u].mode = E2E_Stage(k).mode

\* C5 witness: the whole run has happened
C5_Witness ==
  \E u \in TestUsers :
    /\ \A t \in Tasks : Free(t)
    /\ transcript = E2E_Transcript(u, ReportB)
    /\ user_states[u] = [mode |-> "city_choice", sunrise |-> "06:00", sunset |-> "20:00"]

Ids == Users \cup {BotId}

\* C6: get_user_state is idempotent: for an id not in the store it inserts
\* {greeting, "", ""} and touches no other entry; for an id in the store it
\* returns the store as it is, so a second call changes nothing.  Every user
\* whose update a handler has taken up has an entry, and no step removes one.
C6_GetOrCreate ==
  /\ [](\A id \in Ids :
          LET once == get_user_state(user_states, id)
              twice == get_user_state(once, id)
          IN /\ twice = once
             /\ DOMAIN once = (DOMAIN user_states) \cup {id}
             /\ \A other \in DOMAIN user_states : once[other] = user_states[other]
             /\ id \notin DOMAIN user_states =>
                  once[id] = [mode |-> "greeting", sunrise |-> "", sunset |-> ""])
  /\ [](\A t \in Tasks : pc[t] # "idle" => User(t) \in DOMAIN user_states)
  /\ [][(DOMAIN user_states) \subseteq (DOMAIN user_states')]_vars
  /\ [][\A t \in Tasks, u \in Users, text \in Texts :
          (TextMessage(t, u, text) /\ u \in DOMAIN user_states) => user_states' = user_states]_vars

\* C6 witness: a text message of a user in mode sun_question was handled
\* (get_user_state was called again for that user) and the entry is still there
C6_Witness ==
  \E t \in Tasks, u \in Users :
    /\ pc[t] = "done" /\ call[t].kind = "text" /\ User(t) = u
    /\ user_states[u].mode = "sun_question" /\ user_states[u].sunrise # ""

WorkflowFailing == {"geo", "weather", "photo", "metrics"}

ModesOf(store) == [id \in DOMAIN store |-> store[id].mode]

\* C7: a workflow can fail in four steps: on the geocoder's response, on the
\* provider's response, after the icon was sent, after the metrics were sent.
\* None of these steps, failing or not, changes the mode of any user, so a
\* failing workflow (invoked in city_choice or in other_city) leaves the mode
\* as it finds it; a failure on the geocoder's or the provider's response
\* leaves the whole store, sunrise and sunset included, as it was.
C7_FailureKeepsMode ==
  [][\A t \in Tasks :
       (pc[t] \in WorkflowFailing /\ pc'[t] # pc[t]) =>
         /\ ModesOf(user_states') = ModesOf(user_states)
         /\ pc[t] \in {"geo", "weather"} => user_states' = user_states
         /\ pc'[t] = "done" =>
              sent'[t][Len(sent'[t])].text \in {"went_wrong", "city_not_found"}]_vars

\* C7 witness: a workflow started by a text message in mode other_city has failed
C7_Witness ==
  \E t \in Tasks, u \in Users :
    /\ pc[t] = "done" /\ call[t].kind = "text" /\ User(t) = u
    /\ sent[t] # <<>> /\ sent[t][Len(sent[t])].text = "went_wrong"
    /\ user_states[u].mode = "other_city"

Last(q) == q[Len(q)]

TextsOf(q) == [i \in 1..Len(q) |-> q[i].text]

\* C8 as claimed: every failing workflow invocation emits exactly one message.
C8_OneMessagePerFailure ==
  [][\A t \in Tasks :
       (pc[t] \in WorkflowFailing /\ pc'[t] = "done") => Len(sent'[t]) = 1]_vars

\* C8 as amended: a failing workflow invocation ends by emitting exactly one
\* error message, with the single button start, and returns; the text is
\* 'city not found' exactly when the geocoder answered 200 with an empty list,
\* and 'something went wrong' otherwise.  Before it the invocation has emitted
\* nothing when it fails on the geocoder's or the provider's response, the icon
\* when it fails after the icon, the icon and the metrics when it fails after
\* the metrics.
C8_ErrorMessage ==
  [][\A t \in Tasks :
       (pc[t] \in WorkflowFailing /\ pc'[t] = "done") =>
         /\ sent'[t] =
              Append(sent[t],
                     [dir |-> "out", who |-> User(t), kind |-> "text",
                      text |-> IF GeoResponse(t, [status |-> 200, data |-> <<>>])
                                 THEN "city_not_found" ELSE "went_wrong",
                      args |-> <<>>, buttons |-> <<"start">>])
         /\ TextsOf(sent[t]) =
              CASE pc[t] \in {"geo", "weather"} -> <<>>
                [] pc[t] = "photo" -> <<"icon">>
                [] pc[t] = "metrics" -> <<"icon", "metrics">>]_vars

\* C8 witness: a workflow failed after the icon was sent
C8_Witness ==
  \E t \in Tasks :
    /\ pc[t] = "done"
    /\ TextsOf(sent[t]) = <<"icon", "went_wrong">>
    /\ Last(sent[t]).buttons = <<"start">>

\* C9: a workflow that succeeds emits the icon image, then the metrics text,
\* then the yes/no/start question, and nothing else in between; a user's mode
\* becomes sun_question only in the step that follows the question.
C9_EmissionOrder ==
  /\ [](\A t \in Tasks :
          /\ pc[t] = "photo" => TextsOf(sent[t]) = <<"icon">> /\ sent[t][1].kind = "photo"
          /\ pc[t] = "metrics" => TextsOf(sent[t]) = <<"icon", "metrics">>
          /\ pc[t] = "ask_sun" =>
               /\ TextsOf(sent[t]) = <<"icon", "metrics", "ask_sun">>
               /\ sent[t][1].kind = "photo"
               /\ sent[t][3].buttons = <<"yes", "no", "start">>)
  /\ [][\A id \in DOMAIN user_states' :
          (user_states'[id].mode = "sun_question" /\ Entry(user_states, id).mode # "sun_question") =>
            \E t \in Tasks :
              /\ User(t) = id /\ pc[t] = "ask_sun" /\ pc'[t] = "done"
              /\ TextsOf(sent[t]) = <<"icon", "metrics", "ask_sun">>
              /\ sent'[t] = sent[t]]_vars

\* C9 witness: a workflow has succeeded
C9_Witness ==
  \E t \in Tasks :
    /\ pc[t] = "done"
    /\ TextsOf(sent[t]) = <<"icon", "metrics", "ask_sun">>
    /\ user_states[User(t)].mode = "sun_question"

\* C10: the pressure shown is the provider's hPa value times 0.75 truncated:
\* for 0 <= p <= MaxHpa it is the integer q with 4q <= 3p < 4q + 4; 1000 gives
\* 750, 1013 gives 759; a missing pressure field gives 0.
C10_Pressure ==
  mmHg # -1 =>
    /\ hPa.tag = "absent" => mmHg = 0
    /\ hPa.tag = "num" =>
         /\ 4 * mmHg <= 3 * hPa.val /\ 3 * hPa.val < 4 * mmHg + 4
         /\ hPa.val = 1000 => mmHg = 750
         /\ hPa.val = 1013 => mmHg = 759

\* C10 witness: 1013 hPa was converted
C10_Witness == hPa = Num(1013) /\ mmHg = 759

-----------------------------------------------------------------------------
(* Sunrise and sunset as stored *)

\* A field of the report in seconds, a missing one counting as 0
Seconds(v) == IF v.tag = "absent" THEN 0 ELSE v.val

\* Hours h and minutes m, each as two decimal digits
HHMM(h, m) ==
  Digit[(h \div 10) + 1] \o Digit[(h % 10) + 1] \o ":" \o Digit[(m \div 10) + 1] \o Digit[(m % 10) + 1]

ClockOf(s) == HHMM((s \div 3600) % 24, (s \div 60) % 60)

\* C11: the stored sunrise and sunset are the zero-padded HH:MM of
\* (epoch + timezone) read as UTC: hours (s div 3600) mod 24, minutes
\* (s div 60) mod 60; 0 gives "00:00", 19800 gives "05:30"; a missing
\* sunrise, sunset or timezone counts as 0.
C11_SunTimes ==
  stored # BotState =>
    LET rise == Seconds(report.sunrise) + Seconds(report.timezone)
        down == Seconds(report.sunset) + Seconds(report.timezone)
    IN /\ stored.sunrise = ClockOf(rise)
       /\ stored.sunset = ClockOf(down)
       /\ Len(stored.sunrise) = 5 /\ Len(stored.sunset) = 5
       /\ rise = 0 => stored.sunrise = "00:00"
       /\ rise = 19800 => stored.sunrise = "05:30"
       /\ down = 0 => stored.sunset = "00:00"
       /\ stored.mode = "greeting"

\* C11 witness: a report with sunrise 00:07:59 UTC, no sunset and a zone of
\* +05:30 was stored as 05:37 and 05:30
C11_Witness ==
  /\ report.sunrise = Num(479) /\ report.sunset = Absent /\ report.timezone = Num(19800)
  /\ stored.sunrise = "05:37" /\ stored.sunset = "05:30"

-----------------------------------------------------------------------------
(* Button clicks, mode by mode *)

\* C12: in mode city_choice a click on other emits the 'enter a city name'
\* prompt and then sets the mode to other_city; the handler does not enter the
\* weather workflow and leaves the stored sunrise and sunset as they were.
C12_OtherButton ==
  [][\A t \in Tasks :
       /\ \A u \in Users :
            (ButtonClick(t, u, "other") /\ Entry(user_states, u).mode = "city_choice") =>
              /\ sent'[t] = <<Message(u, "text", "enter_city", <<>>, <<>>)>>
              /\ pc'[t] = "enter_city"
              /\ user_states' = user_states
       /\ EnterCitySent(t) =>
            /\ call[t].data = "other"
            /\ pc'[t] = "done"
            /\ sent'[t] = sent[t] /\ Len(sent[t]) = 1
            /\ user_states'[User(t)].mode = "other_city"
            /\ user_states'[User(t)].sunrise = user_states[User(t)].sunrise
            /\ user_states'[User(t)].sunset = user_states[User(t)].sunset]_vars

\* C12 witness: a click on other was handled to its end for a user with a
\* stored sunrise
C12_Witness ==
  \E t \in Tasks, u \in Users :
    /\ pc[t] = "done" /\ call[t] = Update("click", u, "other", <<>>)
    /\ sent[t] = <<EnterCityPrompt(u)>>
    /\ user_states[u].mode = "other_city" /\ user_states[u].sunrise # ""

\* C13: in mode sun_question a click whose payload is neither yes nor start
\* (no, for one) emits no sunrise/sunset message; it emits the 'new request?'
\* prompt with the single button start and then sets the mode to city_choice.
C13_NoButton ==
  [][\A t \in Tasks :
       /\ \A u \in Users, data \in ButtonData \ {"yes", "start"} :
            (ButtonClick(t, u, data) /\ Entry(user_states, u).mode = "sun_question") =>
              /\ sent'[t] = <<Message(u, "text", "new_request", <<>>, <<"start">>)>>
              /\ pc'[t] = "new_request"
              /\ user_states' = user_states
       /\ (NewRequestSent(t) /\ call[t].data # "yes") =>
            /\ sent[t] = <<Message(User(t), "text", "new_request", <<>>, <<"start">>)>>
            /\ sent'[t] = sent[t]
            /\ pc'[t] = "done"
            /\ user_states'[User(t)].mode = "city_choice"]_vars

\* C13 witness: a click on no was handled to its end after the sun question
C13_Witness ==
  \E t \in Tasks, u \in Users :
    /\ pc[t] = "done" /\ call[t] = Update("click", u, "no", <<>>)
    /\ sent[t] = <<NewRequestPrompt(u)>>
    /\ user_states[u].mode = "city_choice"
    /\ user_states[u].sunrise # "" /\ user_states[u].sunset # ""

-----------------------------------------------------------------------------
(* Free text *)

\* C14: a text message of user u enters the weather workflow, with the
\* trimmed text as the city, exactly when u's mode is other_city; in the
\* modes greeting, city_choice and sun_question the handler emits nothing,
\* returns, and leaves u's mode, sunrise and sunset as they were.
C14_TextMessage ==
  [][\A t \in Tasks, u \in Users, text \in Texts :
       TextMessage(t, u, text) =>
         /\ sent'[t] = <<>>
         /\ Entry(user_states', u) = Entry(user_states, u)
         /\ pc'[t] = "geo" <=> Entry(user_states, u).mode = "other_city"
         /\ Entry(user_states, u).mode = "other_city" =>
              /\ city'[t] = "Paris"
              /\ call'[t].from_user = u /\ call'[t].chat = u
         /\ Entry(user_states, u).mode \in {"greeting", "city_choice", "sun_question"} =>
              pc'[t] = "done"]_vars

\* C14 witness: a text padded with white space was taken as the city in mode
\* other_city
C14_Witness ==
  \E t \in Tasks, u \in Users :
    /\ pc[t] = "geo" /\ call[t] = Update("text", u, "", <<" ", "Paris", " ">>)
    /\ city[t] = "Paris" /\ sent[t] = <<>>
    /\ user_states[u].mode = "other_city"

-----------------------------------------------------------------------------
(* Ownership of the entries *)

\* A step of the handler in slot t
Handles(t) ==
  \/ \E u \in Users : StartCommand(t, u)
  \/ \E u \in Users, text \in Texts : TextMessage(t, u, text)
  \/ \E u \in Users, data \in ButtonData : ButtonClick(t, u, data)
  \/ EnterCitySent(t)
  \/ SunTimesSent(t)
  \/ NewRequestSent(t)
  \/ \E response \in GeoResponses : GeoResponse(t, response)
  \/ \E response \in WeatherResponses : WeatherResponse(t, response)
  \/ PhotoSent(t)
  \/ MetricsSent(t)
  \/ SunQuestionSent(t)

\* C15: handling an event of user u (a /start, a text, a click with any
\* payload, start included) creates or modifies only the entry keyed by u:
\* every entry under another key is unchanged and none is created.
C15_NoCrossUserEffect ==
  [][\A t \in Tasks :
       Handles(t) =>
         \A i \in Ids \ {call'[t].from_user} :
           /\ i \in DOMAIN user_states' <=> i \in DOMAIN user_states
           /\ i \in DOMAIN user_states => user_states'[i] = user_states[i]]_vars

-----------------------------------------------------------------------------
(* Which clicks start the weather workflow *)

\* C16: in mode city_choice a click starts the weather workflow (a geocode
\* request) only when its payload is one of the four fixed cities; a click
\* on yes or no does not.
C16_OnlyCitiesRunWorkflow ==
  [][\A t \in Tasks, u \in Users, data \in ButtonData :
       (ButtonClick(t, u, data) /\ Entry(user_states, u).mode = "city_choice") =>
         /\ pc'[t] = "geo" => data \in FixedCities
         /\ data \in {"yes", "no"} => pc'[t] # "geo"]_vars

-----------------------------------------------------------------------------
(* Concurrent handlers of one user *)

ModeOf(store, u) == Entry(store, u).mode

\* The step writes v to the mode of user u and no other user's mode
WritesMode(u, v) ==
  /\ ModeOf(user_states, u)' = v
  /\ \A i \in Users \ {u} : ModeOf(user_states, i)' = ModeOf(user_states, i)

\* C17: with handlers of one user's events interleaved at their awaits, the
\* mode is always one of greeting, city_choice, other_city, sun_question, and
\* the last write wins: each of the four writing steps (lines 138, 184, 207,
\* 122) sets the user's mode to its own value whatever another handler wrote
\* in between, and no other step changes a user's mode, so that after both
\* handlers have finished the mode is the one written last.
C17_LastWriteWins ==
  /\ [](\A i \in DOMAIN user_states : user_states[i].mode \in Modes)
  /\ [][\A t \in Tasks :
          /\ \A u \in Users : StartCommand(t, u) => WritesMode(u, "city_choice")
          /\ EnterCitySent(t) => WritesMode(User(t), "other_city")
          /\ NewRequestSent(t) => WritesMode(User(t), "city_choice")
          /\ SunQuestionSent(t) => WritesMode(User(t), "sun_question")]_vars
  /\ [][(\A t \in Tasks :
            /\ \A u \in Users : ~StartCommand(t, u)
            /\ ~EnterCitySent(t) /\ ~NewRequestSent(t) /\ ~SunQuestionSent(t))
          => \A i \in Users : ModeOf(user_states, i)' = ModeOf(user_states, i)]_vars

\* C17 witness: a /start of user u was handled in the second slot, hence while
\* u's click on Moscow was in flight in the first; the workflow then went
\* through, and its write of sun_question is the one that stands
C17_Witness ==
  \E u \in Users :
    /\ pc[1] = "done" /\ call[1] = Update("click", u, "Moscow", <<>>) /\ Len(sent[1]) = 3
    /\ pc[2] = "done" /\ call[2] = Update("command", u, "", <<>>)
    /\ user_states[u].mode = "sun_question"

-----------------------------------------------------------------------------
(* The stored times *)

\* C18: a user whose mode is sun_question has a non-empty stored sunrise and
\* a non-empty stored sunset, so that the answer to a click on yes never
\* shows an empty time.
C18_TimesBeforeQuestion ==
  /\ \A i \in DOMAIN user_states :
       user_states[i].mode = "sun_question" =>
         user_states[i].sunrise # "" /\ user_states[i].sunset # ""
  /\ \A t \in Tasks :
       \A k \in 1..Len(sent[t]) :
         sent[t][k].text = "sun_times" =>
           sent[t][k].args[1].str # "" /\ sent[t][k].args[2].str # ""

\* C18 witness: a user in mode sun_question, whose click on yes is being answered
C18_Witness ==
  \E t \in Tasks, u \in Users :
    /\ u \in DOMAIN user_states
    /\ user_states[u].mode = "sun_question"
    /\ user_states[u].sunrise = "05:30" /\ user_states[u].sunset = "19:00"
    /\ call[t] = Update("click", u, "yes", <<>>) /\ pc[t] = "sun_times"
    /\ sent[t] = <<SunTimes(u, user_states[u])>>

\* The sunrise and the sunset of one report, as stored
PairOf(w) ==
  <<ClockOf(Seconds(w.sunrise) + Seconds(w.timezone)),
    ClockOf(Seconds(w.sunset) + Seconds(w.timezone))>>

StoredPair(store, u) == <<Entry(store, u).sunrise, Entry(store, u).sunset>>

\* C19: under any interleaving of workflows the stored sunrise and sunset
\* come from one and the same report (or are both still empty).
C19_SameReport ==
  \A i \in DOMAIN user_states :
    StoredPair(user_states, i) \in {<<"", "">>} \cup {PairOf(w) : w \in FullReports}

Numeric(v) == v.tag \in {"num", "absent"}

\* C19, amended: the two times are written in one step.  The step that
\* stores a report whose sunrise, sunset and timezone are numbers (or missing)
\* replaces both times of the user by that report's; a report whose sunset is
\* no number replaces the sunrise alone, and one whose sunrise or timezone is
\* no number replaces neither; no other step changes a stored time.
C19_TimesWrittenTogether ==
  [][IF \E t \in Tasks : MetricsSent(t)
       THEN \A t \in Tasks :
              MetricsSent(t) =>
                LET w == weather[t]
                    u == User(t)
                IN /\ (Numeric(w.sunrise) /\ Numeric(w.sunset) /\ Numeric(w.timezone)) =>
                        StoredPair(user_states, u)' = PairOf(w)
                   /\ (Numeric(w.sunrise) /\ ~Numeric(w.sunset) /\ Numeric(w.timezone)) =>
                        StoredPair(user_states, u)' =
                          <<PairOf(w)[1], StoredPair(user_states, u)[2]>>
                   /\ (~Numeric(w.sunrise) \/ ~Numeric(w.timezone)) =>
                        StoredPair(user_states, u)' = StoredPair(user_states, u)
                   /\ \A i \in Ids \ {u} :
                        StoredPair(user_states, i)' = StoredPair(user_states, i)
       ELSE \A i \in Ids : StoredPair(user_states, i)' = StoredPair(user_states, i)]_vars

\* C19 witness: two workflows of one user in flight with different reports,
\* both past the assignment of the times, and the pair stored is the second's
C19_Witness ==
  \E u \in Users :
    /\ pc[1] = "ask_sun" /\ weather[1] = ReportA /\ call[1].from_user = u
    /\ pc[2] = "ask_sun" /\ weather[2] = ReportB /\ call[2].from_user = u
    /\ StoredPair(user_states, u) = <<"06:00", "20:00">>

-----------------------------------------------------------------------------
(* Clicks outside the two button modes *)

\* C20: a click whose payload is not start, from a user in mode greeting (a
\* user never seen included) or other_city, emits nothing, does not enter the
\* weather workflow, and leaves the user's mode, sunrise and sunset as they were.
C20_IgnoredClick ==
  [][\A t \in Tasks, u \in Users, data \in ButtonData \ {"start"} :
       ( /\ ButtonClick(t, u, data)
         /\ \/ u \notin DOMAIN user_states
            \/ user_states[u].mode \in {"greeting", "other_city"} ) =>
         /\ sent'[t] = <<>>
         /\ pc'[t] = "done"
         /\ user_states'[u] =
              IF u \in DOMAIN user_states THEN user_states[u]
              ELSE [mode |-> "greeting", sunrise |-> "", sunset |-> ""]]_vars

\* C20 witness: a click on Moscow was dropped in mode other_city
C20_Witness ==
  \E t \in Tasks, u \in Users :
    /\ pc[t] = "done" /\ call[t] = Update("click", u, "Moscow", <<>>)
    /\ sent[t] = <<>>
    /\ user_states[u].mode = "other_city"

====
